---------------------------- MODULE Spec2Model ----------------------------
(***************************************************************************)
(* Performa: the Express server (its start, the players route, the         *)
(* scrapers route, the NBA scraper controller with its generator of        *)
(* historical series), the PlayerDetails and Dashboard pages of the        *)
(* client, and the crawl pipeline its documentation describes.             *)
(*                                                                         *)
(* Time is counted in minutes since 2025-01-01T00:00Z.  A JavaScript Date  *)
(* is one such instant; its local fields depend on the time zone of the    *)
(* process, its ISO string only on the instant.                            *)
(***************************************************************************)
EXTENDS Integers, Sequences, FiniteSets, TLC

(***************************************************************************)
(* Calendar (the proleptic Gregorian calendar Date uses), from 2025 on.    *)
(***************************************************************************)
EpochYear == 2025

MinutesPerDay == 24 * 60

IsLeap(y) == (y % 4 = 0) /\ ((y % 100 # 0) \/ (y % 400 = 0))

DaysInYear(y) == IF IsLeap(y) THEN 366 ELSE 365

RECURSIVE DaysBeforeYear(_)
DaysBeforeYear(y) ==
    IF y <= EpochYear THEN 0 ELSE DaysBeforeYear(y - 1) + DaysInYear(y - 1)

\* The days of a common year before each month, and before the next year.
CommonYearDays == <<0, 31, 59, 90, 120, 151, 181, 212, 243, 273, 304, 334, 365>>

\* The days of year y before month m (m = 13: the days of the year).
DaysBeforeMonth(y, m) ==
    CommonYearDays[m] + (IF m > 2 /\ IsLeap(y) THEN 1 ELSE 0)

\* ECMAScript MakeDay: the day number of year y, month m, day 1, plus dt - 1;
\* dt may be zero or negative (earlier months) or past the month's end.
MakeDay(y, m, dt) == DaysBeforeYear(y) + DaysBeforeMonth(y, m) + dt - 1

RECURSIVE YearOfDay(_, _)
YearOfDay(y, day) ==
    IF day < DaysBeforeYear(y + 1) THEN y ELSE YearOfDay(y + 1, day)

RECURSIVE MonthOfDay(_, _, _)
MonthOfDay(y, m, dayInYear) ==
    IF dayInYear < DaysBeforeMonth(y, m + 1) THEN m
    ELSE MonthOfDay(y, m + 1, dayInYear)

\* Year, month and day of the month of a day number.
YMD(day) ==
    LET y == YearOfDay(EpochYear, day)
        diy == day - DaysBeforeYear(y)
        m == MonthOfDay(y, 1, diy)
    IN  <<y, m, diy - DaysBeforeMonth(y, m) + 1>>

\* The instant of hh:mm UTC on a calendar day.
Instant(y, m, d, hh, mm) == MakeDay(y, m, d) * MinutesPerDay + hh * 60 + mm

(***************************************************************************)
(* Time zones of the process.  A zone has a standard and a daylight offset *)
(* (minutes east of UTC) and the intervals of daylight time, in UTC.       *)
(***************************************************************************)
ZoneNewYork ==
    [name |-> "America/New_York", std |-> -300, dst |-> -240,
     summer |-> {<<Instant(2025, 3, 9, 7, 0), Instant(2025, 11, 2, 6, 0)>>,
                 <<Instant(2026, 3, 8, 7, 0), Instant(2026, 11, 1, 6, 0)>>}]

\* The zone's offset at an instant.
Offset(zone, t) ==
    IF \E iv \in zone.summer : iv[1] <= t /\ t < iv[2] THEN zone.dst ELSE zone.std

\* ECMAScript UTC(t): the instant of a local time.  A repeated local time is
\* the earlier instant, a skipped one is read with the offset before the
\* transition.
LocalToUTC(zone, local) ==
    IF Offset(zone, local - zone.dst) = zone.dst
    THEN local - zone.dst
    ELSE local - zone.std

LocalTime(zone, t) == t + Offset(zone, t)

\* Date.prototype.getDate: the day of the month, in local time.
GetDate(zone, t) == YMD(LocalTime(zone, t) \div MinutesPerDay)[3]

\* Date.prototype.setDate(dt): local year, month and time of day kept, the
\* day of the month replaced.
SetDate(zone, t, dt) ==
    LET local == LocalTime(zone, t)
        ymd == YMD(local \div MinutesPerDay)
    IN  LocalToUTC(zone, MakeDay(ymd[1], ymd[2], dt) * MinutesPerDay
                             + (local % MinutesPerDay))

\* date.toISOString().split('T')[0]: the calendar day, in UTC.
IsoDate(t) == YMD(t \div MinutesPerDay)

\* The order of "YYYY-MM-DD" strings.
DateLess(a, b) ==
    \/ a[1] < b[1]
    \/ a[1] = b[1] /\ a[2] < b[2]
    \/ a[1] = b[1] /\ a[2] = b[2] /\ a[3] < b[3]


(***************************************************************************)
(* Bounds of the model.                                                    *)
(***************************************************************************)
\* Requests the clients send.
MaxReqs == 2
\* Math.random is drawn from MaxRand + 1 equally spaced numbers of [0, 1).
MaxRand == 3
\* Random streams a run may see are numbered 0 .. MaxSeed.
MaxSeed == 1
\* Times the clock advances, between two handlers or between two reads of
\* a run.
MaxTicks == 1

\* The time zones and the clocks the process may start with (19:30 of
\* March 20 in New York, and one minute to midnight of that day), and the
\* minutes the clock advances between two turns of the event loop.
ZoneInputs == {ZoneNewYork}

EveningClock == Instant(2026, 3, 20, 23, 30)

MidnightClock == Instant(2026, 3, 21, 3, 59)

TickMinutes == 12 * 60

\* The minutes the clock advances between two of a run's reads of it, when
\* it does.
StepMinutes == 1

(***************************************************************************)
(* controllers/nbaScraper.js: generateHistoricalData                       *)
(***************************************************************************)
\* The loop runs i = 30, 29, ..., 0.
HistoryDays == 30

RandLevels == MaxRand + 1

\* The k-th number Math.random() returns in a run that sees stream seed, as
\* a numerator over RandLevels.
MathRandom(seed, k) == (seed + k * (seed + 1)) % RandLevels

\* parseFloat((Math.random() * (max - min) + min).toFixed(1)), in tenths:
\* the number is rounded to one decimal.
RandomValue(r, min, max) ==
    min * 10 + (2 * r * (max - min) * 10 + RandLevels) \div (2 * RandLevels)

\* The point pushed in iteration i: const date = new Date() reads the clock,
\* date.setDate(today.getDate() - i) moves it to a day of the month counted
\* from today, which the call read from the clock before the loop; the
\* point is the moved Date's ISO date and a random value.
HistoricalPoint(zone, today, clock, i, r, min, max) ==
    [date  |-> IsoDate(SetDate(zone, clock, GetDate(zone, today) - i)),
     value |-> RandomValue(r, min, max)]

\* A call reads the clock for today and then once in each iteration.
ReadsPerCall == HistoryDays + 2

\* generateHistoricalData(min, max) in zone; reads are the values the run
\* reads from the clock, in order, first the number of reads it made before
\* the call, base the number of Math.random() calls it made before.
generateHistoricalData(zone, reads, first, seed, base, min, max) ==
    [j \in 1..(HistoryDays + 1) |->
        HistoricalPoint(zone, reads[first + 1], reads[first + 1 + j],
                        HistoryDays + 1 - j,
                        MathRandom(seed, base + j - 1), min, max)]

(***************************************************************************)
(* controllers/nbaScraper.js: scrapeNBAData                                *)
(***************************************************************************)
SeriesLen == HistoryDays + 1

\* A run calls generateHistoricalData six times.
RunReads == 6 * ReadsPerCall

\* The values a run reads from the clock when its first read is start and
\* the clock advances after its read number step (0: the clock does not
\* advance while the run reads it).
ClockReads(start, step) ==
    [k \in 1..RunReads |->
        IF step # 0 /\ k > step THEN start + StepMinutes ELSE start]

\* Where the clock may advance in a run: not at all, and in the middle of
\* the first call's loop (an advance after the run's last read is the clock
\* advancing between two handlers).
StepInputs == {0, ReadsPerCall \div 2}

\* const dummyPlayers = [...]: the six series are generated in source order.
DummyPlayers(zone, reads, seed) ==
    << [id |-> 1, name |-> "LeBron James", team |-> "Los Angeles Lakers",
        sport |-> "NBA", position |-> "Forward",
        stats |-> [points   |-> generateHistoricalData(zone, reads, 0, seed,
                                                     0, 25, 35),
                   rebounds |-> generateHistoricalData(zone, reads, ReadsPerCall, seed,
                                                     SeriesLen, 7, 10),
                   assists  |-> generateHistoricalData(zone, reads, 2 * ReadsPerCall, seed,
                                                     2 * SeriesLen, 7, 11)]],
       [id |-> 2, name |-> "Stephen Curry", team |-> "Golden State Warriors",
        sport |-> "NBA", position |-> "Guard",
        stats |-> [points   |-> generateHistoricalData(zone, reads, 3 * ReadsPerCall, seed,
                                                     3 * SeriesLen, 20, 33),
                   rebounds |-> generateHistoricalData(zone, reads, 4 * ReadsPerCall, seed,
                                                     4 * SeriesLen, 4, 7),
                   assists  |-> generateHistoricalData(zone, reads, 5 * ReadsPerCall, seed,
                                                     5 * SeriesLen, 5, 8)]] >>

\* A null element of the players array.
JsonNull == [null |-> TRUE]

IsNull(p) == p = JsonNull

\* let data = { players: [] }; if the file exists, data = JSON.parse(read).
\* ok is FALSE when reading or parsing throws.
LoadData(f) ==
    IF f.kind = "missing" THEN [ok |-> TRUE, hasPlayers |-> TRUE, players |-> <<>>]
    ELSE IF f.kind = "corrupt" THEN [ok |-> FALSE, hasPlayers |-> FALSE, players |-> <<>>]
    ELSE [ok |-> TRUE, hasPlayers |-> f.hasPlayers, players |-> f.players]

\* data.players.filter(p => p.sport !== "NBA") throws a TypeError when
\* data.players is undefined or an element is null.
MergeThrows(data) ==
    \/ ~data.hasPlayers
    \/ \E k \in 1..Len(data.players) : IsNull(data.players[k])

\* The merge without its filter, without the existing players, and with the
\* existing players first.
MergeUnfiltered(dummyPlayers, players) == dummyPlayers \o players

MergeNbaOnly(dummyPlayers, players) == dummyPlayers

MergeOthersFirst(dummyPlayers, players) ==
    SelectSeq(players, LAMBDA p : p.sport # "NBA") \o dummyPlayers

\* [...dummyPlayers, ...data.players.filter(p => p.sport !== "NBA")]
MergePlayers(dummyPlayers, players) ==
    dummyPlayers \o SelectSeq(players, LAMBDA p : p.sport # "NBA")

\* fs.writeFileSync(dataFile, JSON.stringify(data, null, 2))
WrittenFile(players) == [kind |-> "json", hasPlayers |-> TRUE, players |-> players]


(***************************************************************************)
(* The server process.                                                     *)
(*                                                                         *)
(* Node runs one callback at a time: a handler runs from its first         *)
(* statement to its first await.  scrapeNBAData reads and writes with the  *)
(* synchronous fs calls and awaits nothing, so a run goes from its read to *)
(* its write, or to its throw, with no other handler in between.  The      *)
(* route handler then leaves the stack at `await scrapeNBAData()`: its     *)
(* continuation, which sends the response, is a later job, and requests    *)
(* that have arrived on the connection may be dispatched before it.        *)
(***************************************************************************)
VARIABLES
    zone,       \* the time zone of the process
    now,        \* the clock
    ticks,      \* times the clock advanced
    file,       \* data/players.json
    kind,       \* kind[r]: the route request r asks for, "none" before it is sent
    pc,         \* pc[r]: where request r's handler is
    data,       \* data[r]: scrapeNBAData's data, as loaded
    dummy,      \* dummy[r]: scrapeNBAData's dummyPlayers
    clocks,     \* clocks[r]: history: the clock at the first read of the run
                \* of request r, and the read after which it advanced
    wrote,      \* wrote[r]: the run of request r called writeFileSync
    resp,       \* resp[r]: the response sent to request r
    thread,     \* the request whose handler is on the stack, 0 when none
    lastRun,    \* history: the last run that ended: its outcome, and its
                \* request until that is answered
    lastGood,   \* history: the last run that wrote: its records, the players
                \* it retained, the clock reads of the run that wrote before
                \* it and its own, and how many runs wrote
    seen,       \* seen[r]: history: lastRun, lastGood and whether a trigger
                \* had been answered with success when request r was answered
    searched    \* searched[r]: history: the file the run, or the lookup, of
                \* request r read

srvVars == <<zone, now, ticks, file, kind, pc, data, dummy, clocks, wrote,
             resp, thread, lastRun, lastGood, seen, searched>>

Reqs == 1..MaxReqs

Routes == {"scrape", "players", "status"}

EmptyStats == [points |-> <<>>, rebounds |-> <<>>, assists |-> <<>>]

OnePoint(y, m, d, v) == <<[date |-> <<y, m, d>>, value |-> v]>>

\* Players a store may hold before a run.
Crosby ==
    [id |-> 7, name |-> "Sidney Crosby", team |-> "Pittsburgh Penguins",
     sport |-> "NHL", position |-> "Center",
     stats |-> [points |-> OnePoint(2026, 1, 5, 20), rebounds |-> <<>>, assists |-> <<>>]]

Messi ==
    [id |-> 9, name |-> "Lionel Messi", team |-> "Inter Miami",
     sport |-> "MLS", position |-> "Forward", stats |-> EmptyStats]

Durant ==
    [id |-> 3, name |-> "Kevin Durant", team |-> "Phoenix Suns",
     sport |-> "NBA", position |-> "Forward",
     stats |-> [points |-> OnePoint(2026, 1, 5, 270), rebounds |-> <<>>, assists |-> <<>>]]

StaleLeBron ==
    [id |-> 1, name |-> "LeBron James", team |-> "Los Angeles Lakers",
     sport |-> "NBA", position |-> "Forward",
     stats |-> [points |-> OnePoint(2026, 1, 5, 301), rebounds |-> <<>>, assists |-> <<>>]]

Ovechkin ==
    [id |-> 2, name |-> "Alex Ovechkin", team |-> "Washington Capitals",
     sport |-> "NHL", position |-> "Left Wing", stats |-> EmptyStats]

JsonFile(players) == [kind |-> "json", hasPlayers |-> TRUE, players |-> players]

\* What data/players.json may hold when the server has started: the file
\* routes/players.js creates, an earlier store (one of them with a player of
\* another sport whose id a record of the scraper has too), a store with a
\* null element, an object with no players member, text that is not JSON or
\* that cannot be read, or no file (removed after the start).
StoreInputs ==
    { JsonFile(<<>>),
      JsonFile(<<Crosby>>),
      JsonFile(<<Ovechkin>>),
      JsonFile(<<Durant, Crosby, StaleLeBron, Messi>>),
      JsonFile(<<Crosby, JsonNull>>),
      [kind |-> "json", hasPlayers |-> FALSE, players |-> <<>>],
      [kind |-> "corrupt", hasPlayers |-> FALSE, players |-> <<>>],
      [kind |-> "missing", hasPlayers |-> FALSE, players |-> <<>>] }

NoData == [ok |-> FALSE, hasPlayers |-> FALSE, players |-> <<>>]

NoResp == [code |-> 0, message |-> "", players |-> <<>>, status |-> "", lastRun |-> ""]

NoRun == [outcome |-> "none", by |-> 0]

\* No clock read yet.
NoReads == [start |-> 0, step |-> 0]

NoGood == [count |-> 0, records |-> <<>>, retained |-> <<>>,
           earlier |-> NoReads, clock |-> NoReads]

NoneSeen == [outcome |-> "none", good |-> 0, acked |-> FALSE, at |-> ""]

\* No file read yet.
NotRead == [kind |-> "unread", hasPlayers |-> FALSE, players |-> <<>>]

SrvInit ==
    /\ zone \in ZoneInputs
    /\ now \in {EveningClock, MidnightClock}
    /\ ticks = 0
    /\ file \in StoreInputs
    /\ now = MidnightClock => file = JsonFile(<<>>)
    /\ kind = [r \in Reqs |-> "none"]
    /\ pc = [r \in Reqs |-> "new"]
    /\ data = [r \in Reqs |-> NoData]
    /\ dummy = [r \in Reqs |-> <<>>]
    /\ clocks = [r \in Reqs |-> NoReads]
    /\ wrote = [r \in Reqs |-> FALSE]
    /\ resp = [r \in Reqs |-> NoResp]
    /\ thread = 0
    /\ lastRun = NoRun
    /\ lastGood = NoGood
    /\ seen = [r \in Reqs |-> NoneSeen]
    /\ searched = [r \in Reqs |-> NotRead]

\* A client sends request r; it waits at the server until it is dispatched.
Arrive(r, route) ==
    /\ pc[r] = "new"
    /\ (IF r = 1 THEN TRUE ELSE pc[r - 1] # "new")
    /\ kind' = [kind EXCEPT ![r] = route]
    /\ pc' = [pc EXCEPT ![r] = "queued"]
    /\ UNCHANGED <<zone, now, ticks, file, data, dummy, clocks, wrote, resp,
                   thread, lastRun, lastGood, seen, searched>>

\* A handler has left the stack at its await and its continuation has not
\* run yet.
Suspended == \E q \in Reqs : kind[q] = "scrape" /\ pc[q] \in {"written", "threw"}

\* The clock advances between two turns of the event loop (a continuation
\* runs in the turn that suspended it).
Tick ==
    /\ thread = 0
    /\ ~Suspended
    /\ ticks < MaxTicks
    /\ now' = now + TickMinutes
    /\ ticks' = ticks + 1
    /\ UNCHANGED <<zone, file, kind, pc, data, dummy, clocks, wrote, resp,
                   thread, lastRun, lastGood, seen, searched>>

\* Request r is the one that has waited longest.
NextInLine(r) == pc[r] = "queued" /\ \A q \in 1..(r - 1) : pc[q] # "queued"

\* Dispatch as it would be if handlers could interleave (a run that awaited
\* asynchronous file calls).
Interleaved(r) == NextInLine(r)

\* A request is dispatched only when no handler is on the stack, and
\* requests are dispatched in the order they arrived (the numbers of the
\* requests are that order).
Dispatchable(r) == thread = 0 /\ NextInLine(r)

\* The run of request r, ending now, as history keeps it.
RunEnded(r, outcome) == [outcome |-> outcome, by |-> r]

\* router.post('/nba') calls scrapeNBAData, which loads the existing data.
\* When the load throws, scrapeNBAData's promise is rejected and the handler
\* leaves the stack at its await.
ScrapeLoad(r) ==
    /\ Dispatchable(r)
    /\ kind[r] = "scrape"
    /\ data' = [data EXCEPT ![r] = LoadData(file)]
    /\ searched' = [searched EXCEPT ![r] = file]
    /\ IF LoadData(file).ok
       THEN /\ pc' = [pc EXCEPT ![r] = "loaded"]
            /\ thread' = r
            /\ UNCHANGED lastRun
       ELSE /\ pc' = [pc EXCEPT ![r] = "threw"]
            /\ thread' = 0
            /\ lastRun' = RunEnded(r, "Failed")
    /\ UNCHANGED <<zone, now, ticks, file, kind, dummy, clocks, wrote, resp,
                   lastGood, seen>>

\* const dummyPlayers = [...]: every call of generateHistoricalData reads
\* the clock for today and again for each point, and the clock may advance
\* between two reads.
ScrapeBuild(r) ==
    /\ thread = r
    /\ pc[r] = "loaded"
    /\ \E seed \in 0..MaxSeed, step \in StepInputs :
          /\ step # 0 => ticks < MaxTicks
          /\ dummy' = [dummy EXCEPT
                          ![r] = DummyPlayers(zone, ClockReads(now, step), seed)]
          /\ clocks' = [clocks EXCEPT ![r] = [start |-> now, step |-> step]]
          /\ now' = ClockReads(now, step)[RunReads]
          /\ ticks' = IF step = 0 THEN ticks ELSE ticks + 1
    /\ pc' = [pc EXCEPT ![r] = "built"]
    /\ UNCHANGED <<zone, file, kind, data, wrote, resp, thread, lastRun,
                   lastGood, seen, searched>>

\* The run of request r, writing now, as history keeps it.
GoodRun(r) ==
    [count |-> lastGood.count + 1, records |-> dummy[r],
     retained |-> SelectSeq(data[r].players, LAMBDA p : p.sport # "NBA"),
     earlier |-> lastGood.clock, clock |-> clocks[r]]

\* The run as it would be if it wrote its records before it merged the
\* existing players.
WriteBeforeMerge(r) ==
    /\ thread = r
    /\ pc[r] = "built"
    /\ wrote' = [wrote EXCEPT ![r] = TRUE]
    /\ IF MergeThrows(data[r])
       THEN /\ file' = WrittenFile(dummy[r])
            /\ pc' = [pc EXCEPT ![r] = "threw"]
            /\ lastRun' = RunEnded(r, "Failed")
            /\ UNCHANGED lastGood
       ELSE /\ file' = WrittenFile(MergePlayers(dummy[r], data[r].players))
            /\ pc' = [pc EXCEPT ![r] = "written"]
            /\ lastRun' = RunEnded(r, "Succeeded")
            /\ lastGood' = GoodRun(r)
    /\ thread' = 0
    /\ UNCHANGED <<zone, now, ticks, kind, data, dummy, clocks, resp, seen,
                   searched>>

\* data.players = [...]; fs.writeFileSync(...); return dummyPlayers -- or
\* the merge throws and nothing is written.  Either way scrapeNBAData's
\* promise is settled and the handler leaves the stack at its await.
ScrapeWrite(r) ==
    /\ thread = r
    /\ pc[r] = "built"
    /\ IF MergeThrows(data[r])
       THEN /\ pc' = [pc EXCEPT ![r] = "threw"]
            /\ lastRun' = RunEnded(r, "Failed")
            /\ UNCHANGED <<file, wrote, lastGood>>
       ELSE /\ file' = WrittenFile(MergePlayers(dummy[r], data[r].players))
            /\ wrote' = [wrote EXCEPT ![r] = TRUE]
            /\ pc' = [pc EXCEPT ![r] = "written"]
            /\ lastRun' = RunEnded(r, "Succeeded")
            /\ lastGood' = GoodRun(r)
    /\ thread' = 0
    /\ UNCHANGED <<zone, now, ticks, kind, data, dummy, clocks, resp, seen,
                   searched>>

\* The handler's await has settled: res.json({message: ...}) after the run
\* returned, res.status(500).json(...) after it threw.
ScrapeResponse(r) ==
    IF pc[r] = "written"
    THEN [NoResp EXCEPT !.code = 200, !.message = "NBA data scraping completed"]
    ELSE [NoResp EXCEPT !.code = 500, !.message = "Error running scraper"]

\* A trigger has been answered with success.
Acked == \E q \in Reqs : kind[q] = "scrape" /\ resp[q].code = 200

\* What the handler of request r, answering now, has before it: for a
\* trigger where its run is, for a status query the last run's outcome, for
\* a player list the runs that wrote and whether a trigger was answered
\* with success.
Seen(r) ==
    [outcome |-> IF kind[r] = "status" THEN lastRun.outcome ELSE "none",
     good |-> IF kind[r] = "players" THEN lastGood.count ELSE 0,
     acked |-> kind[r] = "players" /\ Acked,
     at |-> IF kind[r] = "scrape" THEN pc[r] ELSE ""]

\* The handler as it would answer without awaiting the run.
NotAwaited(r) == pc[r] \in {"loaded", "built", "written", "threw"}

\* The handler answers once scrapeNBAData's promise has settled.
ScrapeSettled(r) == pc[r] \in {"written", "threw"}

\* No handler that left the stack before the handler of request r is still
\* at its await (handlers leave the stack in the order of their requests).
FirstSuspended(r) ==
    \A q \in 1..(r - 1) : ~(kind[q] = "scrape" /\ pc[q] \in {"written", "threw"})

\* The continuation of the handler's await runs when no other handler is on
\* the stack, after the continuations of the handlers suspended before it.
ScrapeRespond(r) ==
    /\ thread \in {0, r}
    /\ FirstSuspended(r)
    /\ kind[r] = "scrape"
    /\ ScrapeSettled(r)
    /\ resp' = [resp EXCEPT ![r] = ScrapeResponse(r)]
    /\ seen' = [seen EXCEPT ![r] = Seen(r)]
    /\ pc' = [pc EXCEPT ![r] = "done"]
    /\ data' = [data EXCEPT ![r] = NoData]
    /\ dummy' = [dummy EXCEPT ![r] = <<>>]
    /\ clocks' = [clocks EXCEPT ![r] = NoReads]
    /\ searched' = [searched EXCEPT ![r] = NotRead]
    /\ thread' = 0
    /\ lastRun' = IF lastRun.by = r THEN RunEnded(0, lastRun.outcome) ELSE lastRun
    /\ UNCHANGED <<zone, now, ticks, file, kind, wrote, lastGood>>

\* router.get('/'): res.json(data.players), or 500 when the file cannot be
\* read or parsed.  res.json(undefined) sends an empty body.
PlayersResponse(f) ==
    IF f.kind # "json"
    THEN [NoResp EXCEPT !.code = 500, !.message = "Error reading player data"]
    ELSE IF ~f.hasPlayers
    THEN [NoResp EXCEPT !.code = 200]
    ELSE [NoResp EXCEPT !.code = 200, !.players = f.players]

GetPlayers(r) ==
    /\ Dispatchable(r)
    /\ kind[r] = "players"
    /\ resp' = [resp EXCEPT ![r] = PlayersResponse(file)]
    /\ seen' = [seen EXCEPT ![r] = Seen(r)]
    /\ pc' = [pc EXCEPT ![r] = "done"]
    /\ UNCHANGED <<zone, now, ticks, file, kind, data, dummy, clocks, wrote,
                   thread, lastRun, lastGood, searched>>

\* router.get('/status'): res.json({nba: {status: 'idle', lastRun: null}})
StatusResponse == [NoResp EXCEPT !.code = 200, !.status = "idle", !.lastRun = "null"]

GetStatus(r) ==
    /\ Dispatchable(r)
    /\ kind[r] = "status"
    /\ resp' = [resp EXCEPT ![r] = StatusResponse]
    /\ seen' = [seen EXCEPT ![r] = Seen(r)]
    /\ pc' = [pc EXCEPT ![r] = "done"]
    /\ UNCHANGED <<zone, now, ticks, file, kind, data, dummy, clocks, wrote,
                   thread, lastRun, lastGood, searched>>


(***************************************************************************)
(* routes/players.js: router.get('/:id')                                   *)
(***************************************************************************)
VARIABLES
    param,      \* param[r]: req.params.id of request r, a sequence of characters
    found       \* found[r]: the player sent to request r, <<>> when none was

lookupVars == <<param, found>>

\* The digits of the radixes up to 16, in lower and in upper case.
Digits ==
    <<"0", "1", "2", "3", "4", "5", "6", "7", "8", "9", "a", "b", "c", "d", "e", "f">>

UpperDigits ==
    <<"0", "1", "2", "3", "4", "5", "6", "7", "8", "9", "A", "B", "C", "D", "E", "F">>

\* c is a digit of the radix.
IsDigit(c, radix) == \E d \in 1..radix : Digits[d] = c \/ UpperDigits[d] = c

DigitValue(c) ==
    (CHOOSE d \in 1..Len(Digits) : Digits[d] = c \/ UpperDigits[d] = c) - 1

\* A character is a string of length one; a character that a TLA+ string
\* cannot spell is written by its code point, as "U+00A0".
\* ECMAScript WhiteSpace: TAB, VT, FF, SP, NBSP, ZWNBSP and the space
\* separators (Unicode category Zs).
WhiteSpaceChars ==
    {"\t", "U+000B", "\f", " ", "U+00A0", "U+FEFF",
     "U+1680", "U+2000", "U+2001", "U+2002", "U+2003", "U+2004", "U+2005",
     "U+2006", "U+2007", "U+2008", "U+2009", "U+200A", "U+202F", "U+205F",
     "U+3000"}

\* ECMAScript LineTerminator: LF, CR, LS and PS.
LineTerminators == {"\n", "\r", "U+2028", "U+2029"}

\* StrWhiteSpaceChar: what parseInt skips at the start of its string.
WhiteSpace == WhiteSpaceChars \cup LineTerminators

\* s from position k on.
From(s, k) == SubSeq(s, k, Len(s))

\* s without the white space it starts with.
RECURSIVE TrimStart(_)
TrimStart(s) ==
    IF s # <<>> /\ s[1] \in WhiteSpace THEN TrimStart(Tail(s)) ELSE s

\* The value of the longest prefix of digits of s from position k on, acc
\* being the value read so far.
RECURSIVE LeadingDigits(_, _, _, _)
LeadingDigits(s, k, radix, acc) ==
    IF k > Len(s) \/ ~IsDigit(s[k], radix) THEN acc
    ELSE LeadingDigits(s, k + 1, radix, acc * radix + DigitValue(s[k]))

\* parseInt(s) with no radix: white space at the start is skipped, a sign
\* is read, "0x" or "0X" after it makes the radix 16 (10 otherwise); the
\* result is the integer the digits that follow spell, whatever comes
\* after them, and NaN, written <<>>, when no digit follows.
ParseInt(s) ==
    LET trimmed == TrimStart(s)
        signed == trimmed # <<>> /\ trimmed[1] \in {"+", "-"}
        sign == IF trimmed # <<>> /\ trimmed[1] = "-" THEN -1 ELSE 1
        unsigned == IF signed THEN Tail(trimmed) ELSE trimmed
        hex == /\ Len(unsigned) >= 2
               /\ unsigned[1] = "0"
               /\ unsigned[2] \in {"x", "X"}
        radix == IF hex THEN 16 ELSE 10
        digits == IF hex THEN From(unsigned, 3) ELSE unsigned
    IN  IF digits = <<>> \/ ~IsDigit(digits[1], radix) THEN <<>>
        ELSE <<sign * LeadingDigits(digits, 1, radix, 0)>>

\* find's callback as it would be if it tested nothing.
FindAny(p, want) == TRUE

\* p.id === want: NaN is equal to nothing.
IdMatches(p, want) == <<p.id>> = want

\* data.players.find(p => p.id === want) from element k on: the first
\* element that matches, none when the end is reached, and a TypeError when
\* a null element is reached first.
RECURSIVE FindPlayer(_, _, _)
FindPlayer(players, want, k) ==
    IF k > Len(players) THEN [outcome |-> "none", player |-> <<>>]
    ELSE IF IsNull(players[k]) THEN [outcome |-> "threw", player |-> <<>>]
    ELSE IF IdMatches(players[k], want)
    THEN [outcome |-> "found", player |-> <<players[k]>>]
    ELSE FindPlayer(players, want, k + 1)

\* The handler's try block on file f: "threw" when readFileSync or
\* JSON.parse throws, when data.players is undefined, or when find throws.
PlayerLookup(f, s) ==
    IF f.kind # "json" \/ ~f.hasPlayers
    THEN [outcome |-> "threw", player |-> <<>>]
    ELSE FindPlayer(f.players, ParseInt(s), 1)

\* res.json(player), res.status(404).json(...) or res.status(500).json(...)
PlayerResponse(f, s) ==
    LET looked == PlayerLookup(f, s)
    IN  IF looked.outcome = "threw"
        THEN [NoResp EXCEPT !.code = 500, !.message = "Error reading player data"]
        ELSE IF looked.outcome = "none"
        THEN [NoResp EXCEPT !.code = 404, !.message = "Player not found"]
        ELSE [NoResp EXCEPT !.code = 200]

\* The path segments the clients ask for.
ParamInputs ==
    { <<"1">>, <<"7", "a">>, <<"1", "2">>, <<"x", "9">>, <<"0", "x", "7">>,
      <<" ", "\f", "+", "9">> }

NoParam == <<>>

LookupInit ==
    /\ param = [r \in Reqs |-> NoParam]
    /\ found = [r \in Reqs |-> <<>>]

\* A client sends GET /api/players/<s> as request r.
ArriveLookup(r, s) ==
    /\ pc[r] = "new"
    /\ (IF r = 1 THEN TRUE ELSE pc[r - 1] # "new")
    /\ kind' = [kind EXCEPT ![r] = "player"]
    /\ param' = [param EXCEPT ![r] = s]
    /\ pc' = [pc EXCEPT ![r] = "queued"]
    /\ UNCHANGED <<zone, now, ticks, file, data, dummy, clocks, wrote, resp,
                   thread, lastRun, lastGood, seen, found, searched>>

GetPlayer(r) ==
    /\ Dispatchable(r)
    /\ kind[r] = "player"
    /\ resp' = [resp EXCEPT ![r] = PlayerResponse(file, param[r])]
    /\ found' = [found EXCEPT ![r] = PlayerLookup(file, param[r]).player]
    /\ searched' = [searched EXCEPT ![r] = file]
    /\ seen' = [seen EXCEPT ![r] = Seen(r)]
    /\ pc' = [pc EXCEPT ![r] = "done"]
    /\ UNCHANGED <<zone, now, ticks, file, kind, data, dummy, clocks, wrote,
                   thread, lastRun, lastGood, param>>


(***************************************************************************)
(* server.js: the start of the process.                                    *)
(***************************************************************************)
VARIABLES
    boot,       \* the statement of server.js the process has reached
    dataDir     \* the directory server/data exists

bootVars == <<boot, dataDir>>

\* The process has started and is listening.
Started == boot = "listening" /\ dataDir = TRUE

\* A process about to run server.js: with no data directory there is no
\* data/players.json either.
Starting ==
    /\ boot = "start"
    /\ dataDir \in BOOLEAN
    /\ ~dataDir => file.kind = "missing"

\* fs.writeFileSync(path, text): ENOENT when the directory of the path does
\* not exist.
CanWriteFile == dataDir

\* const playerRoutes = require('./routes/players'): the module's body
\* writes {players: []} to data/players.json when the file does not exist;
\* an exception it throws ends the process.
RequirePlayers ==
    /\ boot = "start"
    /\ IF file.kind # "missing"
       THEN boot' = "players" /\ UNCHANGED file
       ELSE IF CanWriteFile
       THEN boot' = "players" /\ file' = JsonFile(<<>>)
       ELSE boot' = "crashed" /\ UNCHANGED file
    /\ UNCHANGED <<dataDir, zone, now, ticks, kind, pc, data, dummy, clocks,
                   wrote, resp, thread, lastRun, lastGood, seen, searched>>

\* const scraperRoutes = require('./routes/scrapers'), which requires
\* controllers/nbaScraper: neither touches the file system.
RequireScrapers ==
    /\ boot = "players"
    /\ boot' = "scrapers"
    /\ UNCHANGED <<dataDir, srvVars>>

\* if (!fs.existsSync(dataDir)) fs.mkdirSync(dataDir)
MakeDataDir ==
    /\ boot = "scrapers"
    /\ dataDir' = TRUE
    /\ boot' = "routes"
    /\ UNCHANGED srvVars

\* app.listen(PORT, ...)
Listen ==
    /\ boot = "routes"
    /\ boot' = "listening"
    /\ UNCHANGED <<dataDir, srvVars>>

\* Requests are dispatched once the process listens.
Serving == boot = "listening"


(***************************************************************************)
(* client/src/components/PlayerDetails.js                                  *)
(*                                                                         *)
(* The component stays mounted while the route's id changes; its effect    *)
(* runs again for every new id and starts a request that nothing cancels.  *)
(***************************************************************************)
\* Times the route's id changes.
MaxNavs == 2

VARIABLES
    details,    \* PlayerDetails: id (useParams), player, loading and error
                \* (null is <<>>)
    requests,   \* the requests of fetchPlayerDetails that are outstanding
    navs        \* times the route's id changed

detailsVars == <<details, requests, navs>>

\* The ids the routes name.
RouteIds == { <<"1">>, <<"7">>, <<"1", "2">> }

\* useState(null), useState(true), useState(null), and the effect's first
\* run: a request for the route's id.
DetailsInit ==
    /\ \E i \in RouteIds :
          /\ details = [id |-> i, player |-> <<>>, loading |-> TRUE, error |-> <<>>]
          /\ requests = {[n |-> 0, id |-> i]}
    /\ navs = 0

\* The page of one route, left alone.
DetailsAtRest == DetailsInit /\ details.id = <<"1">>

\* The route's id changes: the component renders with the new id and the
\* effect, which depends on [id], starts a request for it.
Navigate(i) ==
    /\ navs < MaxNavs
    /\ i # details.id
    /\ details' = [details EXCEPT !.id = i]
    /\ requests' = requests \cup {[n |-> navs + 1, id |-> i]}
    /\ navs' = navs + 1

\* err.message of the error axios throws for a response that is not 2xx.
StatusMessage(code) ==
    IF code = 404 THEN "Request failed with status code 404"
    ELSE "Request failed with status code 500"

\* The continuation of await axios.get(`/api/players/${id}`) for the
\* request q when the server has answered: setPlayer(response.data), or
\* setError(err.message); setLoading(false) in both.
DetailsAnswered(q) ==
    /\ q \in requests
    /\ LET answer == PlayerResponse(file, q.id)
       IN  details' =
              IF answer.code = 200
              THEN [details EXCEPT !.player = PlayerLookup(file, q.id).player,
                                   !.loading = FALSE]
              ELSE [details EXCEPT !.error = <<StatusMessage(answer.code)>>,
                                   !.loading = FALSE]
    /\ requests' = requests \ {q}
    /\ UNCHANGED navs

\* The request q fails without a response.
DetailsFailed(q) ==
    /\ q \in requests
    /\ details' = [details EXCEPT !.error = <<"Network Error">>, !.loading = FALSE]
    /\ requests' = requests \ {q}
    /\ UNCHANGED navs

\* What the component renders.
Shown ==
    IF details.loading THEN "loading"
    ELSE IF details.error # <<>> THEN "error"
    ELSE IF details.player = <<>> THEN "not-found"
    ELSE "player"


(***************************************************************************)
(* client/src/components/Dashboard.js                                      *)
(*                                                                         *)
(* The button that calls handleScrapeData is rendered only when loading is *)
(* false and error is null, in the return that also renders a PlayerCard   *)
(* for every player; no error boundary is above the page, so a render that *)
(* throws unmounts it.  A request of axios ends: with a response, or with  *)
(* an error.                                                               *)
(***************************************************************************)
\* Times the button is clicked.
MaxClicks == 3

VARIABLES
    dashboard,  \* Dashboard: players, loading and error (null is <<>>), and
                \* whether the page is mounted
    call,       \* the await the component's async function is at: "fetchPlayers"
                \* (the effect's GET), "post" and "get" (handleScrapeData's), "none"
    ran,        \* the run of the POST's handler at the server, the handler
                \* being at its await: "returned", "threw", "none" otherwise
    reply,      \* the server's response to the request of that await, on its
                \* way to the page; NoResp when the server has sent none
    clicks      \* times the button was clicked

dashVars == <<dashboard, call, ran, reply, clicks>>

\* useState([]), useState(true), useState(null), and the effect's run:
\* fetchPlayers is at its await.
DashInit ==
    /\ dashboard = [players |-> <<>>, loading |-> TRUE, error |-> <<>>,
                    mounted |-> TRUE]
    /\ call = "fetchPlayers"
    /\ ran = "none"
    /\ reply = NoResp
    /\ clicks = 0

\* The catch block as it would be without setLoading(false).
CatchKeepsLoading(d, message) == [d EXCEPT !.error = <<message>>]

\* catch (err) { setError(err.message); setLoading(false); }
Catch(d, message) == [d EXCEPT !.error = <<message>>, !.loading = FALSE]

\* setPlayers(response.data); setLoading(false);
SetPlayers(d, list) == [d EXCEPT !.players = list, !.loading = FALSE]

\* PlayerCard throws a TypeError when the player has no point:
\* latestPointsData is undefined and latestPointsData.value is read.
CardThrows(player) == player.stats.points = <<>>

\* The last return of Dashboard throws: key={player.id} on a null element,
\* or a PlayerCard that throws.
ListThrows(players) ==
    \E k \in 1..Len(players) : IsNull(players[k]) \/ CardThrows(players[k])

\* The page after a render of state d: the render that throws unmounts it.
Render(d) ==
    IF d.mounted /\ ~d.loading /\ d.error = <<>> /\ ListThrows(d.players)
    THEN [d EXCEPT !.mounted = FALSE]
    ELSE d

\* The button is rendered.
ButtonShown ==
    dashboard.mounted /\ ~dashboard.loading /\ dashboard.error = <<>>

\* onClick={handleScrapeData}: setLoading(true), then the POST is sent.
Click ==
    /\ ButtonShown
    /\ call = "none"
    /\ clicks < MaxClicks
    /\ dashboard' = Render([dashboard EXCEPT !.loading = TRUE])
    /\ call' = "post"
    /\ clicks' = clicks + 1
    /\ UNCHANGED <<ran, reply, srvVars>>

\* The store after router.post('/nba') has run scrapeNBAData on file f, and
\* whether the run returned; reads are the values the run reads from the
\* clock.
ScrapeOf(f, reads, seed) ==
    LET loaded == LoadData(f)
    IN  IF loaded.ok /\ ~MergeThrows(loaded)
        THEN [ok |-> TRUE,
              file |-> WrittenFile(MergePlayers(DummyPlayers(zone, reads, seed),
                                                loaded.players))]
        ELSE [ok |-> FALSE, file |-> f]

\* The server is to handle the request the page awaits.
Unserved == reply = NoResp

\* The response has left the server and has not reached the page.
Served == reply # NoResp

\* The server's response to the POST, by the way the run ended.
PostResponse(ended) ==
    IF ended = "returned"
    THEN [NoResp EXCEPT !.code = 200, !.message = "NBA data scraping completed"]
    ELSE [NoResp EXCEPT !.code = 500, !.message = "Error running scraper"]

\* The server handles the POST: router.post('/nba') calls scrapeNBAData,
\* which runs to its return or its throw, and is at its await.
PostRun ==
    /\ call = "post"
    /\ Unserved
    /\ ran = "none"
    /\ \E seed \in 0..MaxSeed, step \in StepInputs :
          LET run == ScrapeOf(file, ClockReads(now, step), seed)
          IN  /\ step # 0 => LoadData(file).ok /\ ticks < MaxTicks
              /\ file' = run.file
              /\ ran' = IF run.ok THEN "returned" ELSE "threw"
              /\ now' = ClockReads(now, step)[RunReads]
              /\ ticks' = IF step = 0 THEN ticks ELSE ticks + 1
    /\ UNCHANGED <<dashboard, call, reply, clicks, zone, kind, pc, data, dummy,
                   clocks, wrote, resp, thread, lastRun, lastGood, seen,
                   searched>>

\* The handler's await has settled: it sends its response.
PostServed ==
    /\ call = "post"
    /\ Unserved
    /\ ran # "none"
    /\ reply' = PostResponse(ran)
    /\ ran' = "none"
    /\ UNCHANGED <<dashboard, call, clicks, srvVars>>

\* The response to the POST reaches the page: after await axios.post(...)
\* the GET is sent, or the catch block runs.
PostAnswered ==
    /\ call = "post"
    /\ Served
    /\ IF reply.code = 200
       THEN call' = "get" /\ UNCHANGED dashboard
       ELSE /\ call' = "none"
            /\ dashboard' = Render(Catch(dashboard, StatusMessage(reply.code)))
    /\ reply' = NoResp
    /\ UNCHANGED <<ran, clicks, srvVars>>

\* The POST ends without a response: the request or the response is lost
\* (a response the handler sends later reaches no one).
PostFailed ==
    /\ call = "post"
    /\ call' = "none"
    /\ ran' = "none"
    /\ reply' = NoResp
    /\ dashboard' = Render(Catch(dashboard, "Network Error"))
    /\ UNCHANGED <<clicks, srvVars>>

\* The server handles GET /api/players and sends its response.
GetServed ==
    /\ call \in {"fetchPlayers", "get"}
    /\ Unserved
    /\ reply' = PlayersResponse(file)
    /\ UNCHANGED <<dashboard, call, ran, clicks, srvVars>>

\* The response to the GET reaches the page: setPlayers(response.data) and
\* setLoading(false), or the catch block.
GetAnswered ==
    /\ call \in {"fetchPlayers", "get"}
    /\ Served
    /\ call' = "none"
    /\ dashboard' = Render(IF reply.code = 200
                           THEN SetPlayers(dashboard, reply.players)
                           ELSE Catch(dashboard, StatusMessage(reply.code)))
    /\ reply' = NoResp
    /\ UNCHANGED <<ran, clicks, srvVars>>

\* The GET ends without a response: the request or the response is lost.
GetFailed ==
    /\ call \in {"fetchPlayers", "get"}
    /\ call' = "none"
    /\ reply' = NoResp
    /\ dashboard' = Render(Catch(dashboard, "Network Error"))
    /\ UNCHANGED <<ran, clicks, srvVars>>


(***************************************************************************)
(* The crawl pipeline of the documented scraper (RobotsPolicy, RateLimiter, *)
(* ResponseCache, Fetcher), which the JavaScript sources do not hold: it   *)
(* is modelled from its specification.  Its clock counts seconds.          *)
(***************************************************************************)
\* Fetch tasks (one per entity) of a run.
MaxTasks == 4
\* The crawl's clock stops here.
MaxTime == 2
\* Retries of a transient failure ("up to N times").
MaxRetries == 1

\* The floor of the delay between two requests to an origin, in seconds.
GlobalFloor == 1
\* The backoff factor doubles on a rate-limit signal, up to this cap.
BackoffCap == 4
\* Seconds after a rate-limit signal before the factor decays.
CoolDown == 2

VARIABLES
    cnow,       \* the crawl's clock
    policy,     \* policy[o]: the robots.txt rule set cached for origin o
    last,       \* last[o]: when the rate limiter last released a request to o
                \* (history: and the release before, and the factor then)
    factor,     \* factor[o]: the backoff factor of o
    coolUntil,  \* coolUntil[o]: the end of o's cool-down window
    waitq,      \* waitq[o]: the callers suspended in acquire(o), first in first out
    cache,      \* the keys the response cache holds
    task,       \* task[t]: origin, path, position, attempts and result of task t
    net         \* history: the origin and path of every network request issued

crawlVars == <<cnow, policy, last, factor, coolUntil, waitq, cache, task, net>>

Origins == {"stats.example", "mirror.example"}

\* The fetches the orchestrator hands out, in order: task t gets the t-th
\* (and starts again at the first when there are more tasks).
WorkItems ==
    << <<"stats.example", <<"teams">>>>,
       <<"stats.example", <<"private", "x">>>>,
       <<"mirror.example", <<"private", "x">>>>,
       <<"stats.example", <<"private", "open", "y">>>>,
       <<"stats.example", <<"teams">>>> >>

WorkItem(t) == WorkItems[((t - 1) % Len(WorkItems)) + 1]

RobotsPath == <<"robots.txt">>

Tasks == 1..MaxTasks

\* The robots.txt each origin serves; the mirror serves none (404).
SiteRobots(o) ==
    IF o = "stats.example"
    THEN [found |-> TRUE, delay |-> 2,
          rules |-> {[pattern |-> <<"private">>, allow |-> FALSE],
                     [pattern |-> <<"private", "open">>, allow |-> TRUE],
                     [pattern |-> <<"teams">>, allow |-> TRUE]}]
    ELSE [found |-> FALSE, delay |-> 0, rules |-> {}]

UnknownPolicy == [known |-> FALSE, delay |-> 0, rules |-> {}]

\* A fetch failure of robots.txt is "allow all, default delay".
ParsedPolicy(site) ==
    IF site.found
    THEN [known |-> TRUE, delay |-> site.delay, rules |-> site.rules]
    ELSE [known |-> TRUE, delay |-> 0, rules |-> {}]

IsPrefix(pattern, path) ==
    /\ Len(pattern) <= Len(path)
    /\ \A k \in 1..Len(pattern) : pattern[k] = path[k]

\* isAllowed: the longest matching pattern wins, a tie goes to allow, no
\* match is allow.
isAllowed(rules, path) ==
    LET matching == {rule \in rules : IsPrefix(rule.pattern, path)}
        longest == {rule \in matching :
                      \A other \in matching : Len(other.pattern) <= Len(rule.pattern)}
    IN  matching = {} \/ \E rule \in longest : rule.allow

Max(a, b) == IF a >= b THEN a ELSE b

Min(a, b) == IF a <= b THEN a ELSE b

\* The delay without the global floor.
CrawlDelayOnly(o) == policy[o].delay * factor[o]

\* The effective delay: the larger of robots.txt's crawl-delay and the
\* global floor, times the backoff factor.
EffectiveDelay(o) == Max(policy[o].delay, GlobalFloor) * factor[o]

\* acquire(o) releases its caller only when the effective delay has passed
\* since the last release.
CanRelease(o) == ~last[o].ever \/ cnow - last[o].at >= EffectiveDelay(o)

NeverReleased == [ever |-> FALSE, at |-> 0, again |-> FALSE, before |-> 0, factor |-> 1]

NewTask == [origin |-> "", path |-> <<>>, pc |-> "new", attempts |-> 0]

CrawlInit ==
    /\ cnow = 0
    /\ policy = [o \in Origins |-> UnknownPolicy]
    /\ last = [o \in Origins |-> NeverReleased]
    /\ factor = [o \in Origins |-> 1]
    /\ coolUntil = [o \in Origins |-> 0]
    /\ waitq = [o \in Origins |-> <<>>]
    /\ cache = {}
    /\ task = [t \in Tasks |-> NewTask]
    /\ net = {}

\* The orchestrator hands task t its fetch.
StartFetch(t) ==
    /\ task[t].pc = "new"
    /\ (IF t = 1 THEN TRUE ELSE task[t - 1].pc # "new")
    /\ task' = [task EXCEPT ![t] = [NewTask EXCEPT !.origin = WorkItem(t)[1],
                                                   !.path = WorkItem(t)[2],
                                                   !.pc = "policy"]]
    /\ UNCHANGED <<cnow, policy, last, factor, coolUntil, waitq, cache, net>>

\* RobotsPolicy, on the first query for an origin, fetches /robots.txt.
FetchRobots(t) ==
    /\ task[t].pc = "policy"
    /\ ~policy[task[t].origin].known
    /\ policy' = [policy EXCEPT ![task[t].origin] = ParsedPolicy(SiteRobots(task[t].origin))]
    /\ net' = net \cup {<<task[t].origin, RobotsPath>>}
    /\ UNCHANGED <<cnow, last, factor, coolUntil, waitq, cache, task>>

\* The fetcher without its policy check.
SkipPolicy(t) ==
    /\ task[t].pc = "policy"
    /\ policy[task[t].origin].known
    /\ IF <<task[t].origin, task[t].path>> \in cache
       THEN /\ task' = [task EXCEPT ![t].pc = "done"]
            /\ UNCHANGED waitq
       ELSE /\ task' = [task EXCEPT ![t].pc = "waiting"]
            /\ waitq' = [waitq EXCEPT ![task[t].origin] = Append(@, t)]
    /\ UNCHANGED <<cnow, policy, last, factor, coolUntil, cache, net>>

\* Fetcher: consult RobotsPolicy (fail closed with PolicyDenied), consult
\* the cache, else acquire the rate limiter.
ConsultPolicy(t) ==
    /\ task[t].pc = "policy"
    /\ policy[task[t].origin].known
    /\ IF ~isAllowed(policy[task[t].origin].rules, task[t].path)
       THEN /\ task' = [task EXCEPT ![t].pc = "denied"]
            /\ UNCHANGED waitq
       ELSE IF <<task[t].origin, task[t].path>> \in cache
       THEN /\ task' = [task EXCEPT ![t].pc = "done"]
            /\ UNCHANGED waitq
       ELSE /\ task' = [task EXCEPT ![t].pc = "waiting"]
            /\ waitq' = [waitq EXCEPT ![task[t].origin] = Append(@, t)]
    /\ UNCHANGED <<cnow, policy, last, factor, coolUntil, cache, net>>

\* The rate limiter releases the first caller of o's queue, which issues
\* its request.
Release(o) ==
    /\ waitq[o] # <<>>
    /\ CanRelease(o)
    /\ LET t == Head(waitq[o])
       IN  /\ task' = [task EXCEPT ![t].pc = "inflight"]
           /\ net' = net \cup {<<o, task[t].path>>}
    /\ waitq' = [waitq EXCEPT ![o] = Tail(@)]
    /\ last' = [last EXCEPT ![o] = [ever |-> TRUE, at |-> cnow,
                                    again |-> last[o].ever, before |-> last[o].at,
                                    factor |-> factor[o]]]
    /\ UNCHANGED <<cnow, policy, factor, coolUntil, cache>>

\* The response arrives and is stored in the cache.
ResponseOk(t) ==
    /\ task[t].pc = "inflight"
    /\ cache' = cache \cup {<<task[t].origin, task[t].path>>}
    /\ task' = [task EXCEPT ![t].pc = "done"]
    /\ UNCHANGED <<cnow, policy, last, factor, coolUntil, waitq, net>>

\* HTTP 429, or 503 with Retry-After: the backoff factor doubles for a
\* cool-down window and the request is retried.
ResponseRateLimited(t) ==
    /\ task[t].pc = "inflight"
    /\ task[t].attempts < MaxRetries
    /\ factor' = [factor EXCEPT ![task[t].origin] = Min(BackoffCap, 2 * @)]
    /\ coolUntil' = [coolUntil EXCEPT ![task[t].origin] = cnow + CoolDown]
    /\ task' = [task EXCEPT ![t].pc = "waiting", ![t].attempts = @ + 1]
    /\ waitq' = [waitq EXCEPT ![task[t].origin] = Append(@, t)]
    /\ UNCHANGED <<cnow, policy, last, cache, net>>

\* A transient failure (reset, timeout, 5xx) is retried up to MaxRetries
\* times, then the entity is skipped.
ResponseTransient(t) ==
    /\ task[t].pc = "inflight"
    /\ IF task[t].attempts < MaxRetries
       THEN /\ task' = [task EXCEPT ![t].pc = "waiting", ![t].attempts = @ + 1]
            /\ waitq' = [waitq EXCEPT ![task[t].origin] = Append(@, t)]
       ELSE /\ task' = [task EXCEPT ![t].pc = "failed"]
            /\ UNCHANGED waitq
    /\ UNCHANGED <<cnow, policy, last, factor, coolUntil, cache, net>>

\* A 4xx other than 429 is not retried.
ResponseNotFound(t) ==
    /\ task[t].pc = "inflight"
    /\ task' = [task EXCEPT ![t].pc = "failed"]
    /\ UNCHANGED <<cnow, policy, last, factor, coolUntil, waitq, cache, net>>

\* After the cool-down window the factor decays toward the floor.
Decay(o) ==
    /\ factor[o] > 1
    /\ cnow >= coolUntil[o]
    /\ factor' = [factor EXCEPT ![o] = @ \div 2]
    /\ UNCHANGED <<cnow, policy, last, coolUntil, waitq, cache, task, net>>

Advance ==
    /\ cnow < MaxTime
    /\ cnow' = cnow + 1
    /\ UNCHANGED <<policy, last, factor, coolUntil, waitq, cache, task, net>>

(***************************************************************************)
(* Specifications.                                                         *)
(***************************************************************************)
vars == <<srvVars, lookupVars, bootVars, detailsVars, dashVars, crawlVars>>

\* What the routes of Spec, and what the crawl pipeline, leave alone.
besideServer == <<lookupVars, bootVars, detailsVars, dashVars, crawlVars>>

besideLookup == <<bootVars, detailsVars, dashVars, crawlVars>>

besideBoot == <<lookupVars, detailsVars, dashVars, crawlVars>>

besideDetails == <<srvVars, lookupVars, bootVars, dashVars, crawlVars>>

besideDashboard == <<lookupVars, bootVars, detailsVars, crawlVars>>

besideCrawl == <<srvVars, lookupVars, bootVars, detailsVars, dashVars>>

\* The pages of the client, left alone.
ClientAtRest == DetailsAtRest /\ DashInit

\* The server, the crawl pipeline at rest.
Init == SrvInit /\ LookupInit /\ Started /\ ClientAtRest /\ CrawlInit

Next ==
    \/ Tick /\ UNCHANGED besideServer
    \/ \E r \in Reqs, route \in Routes : Arrive(r, route) /\ UNCHANGED besideServer
    \/ \E r \in Reqs : ScrapeLoad(r) /\ UNCHANGED besideServer
    \/ \E r \in Reqs : ScrapeBuild(r) /\ UNCHANGED besideServer
    \/ \E r \in Reqs : ScrapeWrite(r) /\ UNCHANGED besideServer
    \/ \E r \in Reqs : ScrapeRespond(r) /\ UNCHANGED besideServer
    \/ \E r \in Reqs : GetPlayers(r) /\ UNCHANGED besideServer
    \/ \E r \in Reqs : GetStatus(r) /\ UNCHANGED besideServer

Spec == Init /\ [][Next]_vars

\* The server answering lookups by id between scrape runs.
NextLookup ==
    \/ \E r \in Reqs : Arrive(r, "scrape") /\ UNCHANGED besideServer
    \/ \E r \in Reqs, s \in ParamInputs : ArriveLookup(r, s) /\ UNCHANGED besideLookup
    \/ \E r \in Reqs : ScrapeLoad(r) /\ UNCHANGED besideServer
    \/ \E r \in Reqs : ScrapeBuild(r) /\ UNCHANGED besideServer
    \/ \E r \in Reqs : ScrapeWrite(r) /\ UNCHANGED besideServer
    \/ \E r \in Reqs : ScrapeRespond(r) /\ UNCHANGED besideServer
    \/ \E r \in Reqs : GetPlayer(r) /\ UNCHANGED besideLookup

SpecLookup == Init /\ [][NextLookup]_vars

\* The process from its start: server.js runs to app.listen, then requests
\* are served.
InitBoot == SrvInit /\ LookupInit /\ Starting /\ ClientAtRest /\ CrawlInit

NextBoot ==
    \/ RequirePlayers /\ UNCHANGED besideBoot
    \/ RequireScrapers /\ UNCHANGED besideBoot
    \/ MakeDataDir /\ UNCHANGED besideBoot
    \/ Listen /\ UNCHANGED besideBoot
    \/ Serving /\ Tick /\ UNCHANGED besideServer
    \/ \E r \in Reqs, route \in Routes :
          Serving /\ Arrive(r, route) /\ UNCHANGED besideServer
    \/ \E r \in Reqs : Serving /\ ScrapeLoad(r) /\ UNCHANGED besideServer
    \/ \E r \in Reqs : Serving /\ ScrapeBuild(r) /\ UNCHANGED besideServer
    \/ \E r \in Reqs : Serving /\ ScrapeWrite(r) /\ UNCHANGED besideServer
    \/ \E r \in Reqs : Serving /\ ScrapeRespond(r) /\ UNCHANGED besideServer
    \/ \E r \in Reqs : Serving /\ GetPlayers(r) /\ UNCHANGED besideServer
    \/ \E r \in Reqs : Serving /\ GetStatus(r) /\ UNCHANGED besideServer

SpecBoot == InitBoot /\ [][NextBoot]_vars

\* The PlayerDetails page of a browser, the server answering from its store.
NextDetails ==
    \/ \E i \in RouteIds : Navigate(i) /\ UNCHANGED besideDetails
    \/ \E q \in requests : DetailsAnswered(q) /\ UNCHANGED besideDetails
    \/ \E q \in requests : DetailsFailed(q) /\ UNCHANGED besideDetails

InitDetails ==
    SrvInit /\ LookupInit /\ Started /\ DetailsInit /\ DashInit /\ CrawlInit

SpecDetails == InitDetails /\ [][NextDetails]_vars

\* The Dashboard page of a browser, the server handling its requests.
NextDashboard ==
    \/ Click /\ UNCHANGED besideDashboard
    \/ PostRun /\ UNCHANGED besideDashboard
    \/ PostServed /\ UNCHANGED besideDashboard
    \/ PostAnswered /\ UNCHANGED besideDashboard
    \/ PostFailed /\ UNCHANGED besideDashboard
    \/ GetServed /\ UNCHANGED besideDashboard
    \/ GetAnswered /\ UNCHANGED besideDashboard
    \/ GetFailed /\ UNCHANGED besideDashboard

\* Every request of the page ends, with a response or with an error.
RequestEnds ==
    \/ PostFailed /\ UNCHANGED besideDashboard
    \/ GetFailed /\ UNCHANGED besideDashboard
    \/ GetAnswered /\ UNCHANGED besideDashboard
    \/ PostAnswered /\ UNCHANGED besideDashboard

SpecDashboard == Init /\ [][NextDashboard]_vars /\ WF_vars(RequestEnds)

\* The crawl pipeline, the server at rest on a fresh store.
IdleServer ==
    /\ SrvInit /\ LookupInit /\ Started /\ ClientAtRest
    /\ file = JsonFile(<<>>) /\ now = EveningClock

InitCrawl == IdleServer /\ CrawlInit

NextCrawl ==
    \/ Advance /\ UNCHANGED besideCrawl
    \/ \E t \in Tasks : StartFetch(t) /\ UNCHANGED besideCrawl
    \/ \E t \in Tasks : FetchRobots(t) /\ UNCHANGED besideCrawl
    \/ \E t \in Tasks : ConsultPolicy(t) /\ UNCHANGED besideCrawl
    \/ \E o \in Origins : Release(o) /\ UNCHANGED besideCrawl
    \/ \E t \in Tasks : ResponseOk(t) /\ UNCHANGED besideCrawl
    \/ \E t \in Tasks : ResponseRateLimited(t) /\ UNCHANGED besideCrawl
    \/ \E t \in Tasks : ResponseTransient(t) /\ UNCHANGED besideCrawl
    \/ \E t \in Tasks : ResponseNotFound(t) /\ UNCHANGED besideCrawl
    \/ \E o \in Origins : Decay(o) /\ UNCHANGED besideCrawl

SpecCrawl == InitCrawl /\ [][NextCrawl]_vars

(***************************************************************************)
(* Properties of the server.                                               *)
(***************************************************************************)
Metrics == {"points", "rebounds", "assists"}

\* The run of request r has started and has neither written nor thrown.
RunActive(r) == kind[r] = "scrape" /\ pc[r] \in {"loaded", "built"}

\* The run of request r has ended, no run has ended since and its trigger
\* is not answered yet.
LastEnded(r) == lastRun.by = r

Answered(r) == resp[r].code # 0

\* The players of a list whose sport is not NBA, and those whose sport is.
OtherSports(players) == SelectSeq(players, LAMBDA p : p.sport # "NBA")

NbaPlayers(players) == SelectSeq(players, LAMBDA p : p.sport = "NBA")

\* C1: at most one scrape run is active at any time, and the store a run
\* read is the store it finds until it writes: no other run's read, merge
\* and write falls between a run's read and its write.
SingleFlight ==
    /\ \A r1, r2 \in Reqs : RunActive(r1) /\ RunActive(r2) => r1 = r2
    /\ \A r \in Reqs :
          kind[r] = "scrape" /\ pc[r] \in {"loaded", "built"}
             => data[r] = LoadData(file)

\* A second trigger has arrived while a run is between its read and its write.
SingleFlightWitness ==
    \E r1, r2 \in Reqs :
        /\ r1 # r2
        /\ kind[r1] = "scrape" /\ pc[r1] = "built"
        /\ kind[r2] = "scrape" /\ pc[r2] = "queued"

\* C2, as claimed: the trigger is answered before the run's work has
\* completed, with Accepted or AlreadyRunning.
TriggerReturnsImmediately ==
    \A r \in Reqs :
        kind[r] = "scrape" /\ Answered(r)
           => /\ seen[r].at \notin {"written", "threw"}
              /\ resp[r].message \in {"Accepted", "AlreadyRunning"}

\* C2, amended: the trigger is answered only when the run has ended: with
\* 200 "NBA data scraping completed" after the run wrote the store, with
\* 500 "Error running scraper" after it threw and wrote nothing.
TriggerAnswersAfterRun ==
    \A r \in Reqs :
        kind[r] = "scrape" /\ Answered(r)
           => \/ /\ resp[r].code = 200
                 /\ resp[r].message = "NBA data scraping completed"
                 /\ seen[r].at = "written"
                 /\ wrote[r]
              \/ /\ resp[r].code = 500
                 /\ resp[r].message = "Error running scraper"
                 /\ seen[r].at = "threw"
                 /\ ~wrote[r]

\* A trigger answered with success, its run having written the store.
TriggerAnswersAfterRunWitness ==
    \E r \in Reqs :
        kind[r] = "scrape" /\ resp[r].code = 200 /\ wrote[r] /\ file.kind = "json"

\* C3, as claimed: once a run has ended, the status query reports that
\* run's outcome and a non-null last run.
StatusReflectsLastRun ==
    \A r \in Reqs :
        kind[r] = "status" /\ Answered(r) /\ seen[r].outcome # "none"
           => /\ resp[r].status = seen[r].outcome
              /\ resp[r].lastRun # "null"

\* The dates of a series are strictly ascending (so no date occurs twice).
StrictlyAscending(series) ==
    \A j \in 1..(Len(series) - 1) : DateLess(series[j].date, series[j + 1].date)

\* C4, as claimed: every series a run writes is ordered by date strictly
\* ascending, with no two points of the same date.
SeriesStrictlyAscending ==
    \A r \in Reqs :
        kind[r] = "scrape" /\ pc[r] = "written"
           => \A k \in 1..Len(dummy[r]) : \A m \in Metrics :
                 StrictlyAscending(dummy[r][k].stats[m])

\* A second run has just written the store.  The store it read,
\* data[r].players, is the store after the run that wrote before it: only
\* runs write the file.
SecondRunWritten(r) ==
    /\ kind[r] = "scrape" /\ pc[r] = "written" /\ LastEnded(r)
    /\ lastGood.count > 1

\* The second run read from the clock, read by read, what the run before it
\* read.
SameReads ==
    ClockReads(lastGood.earlier.start, lastGood.earlier.step)
       = ClockReads(lastGood.clock.start, lastGood.clock.step)

\* C5, as claimed: the store after the second of two runs in a row, the
\* clock as in the first, is the store after the first.
ScrapeIdempotent ==
    \A r \in Reqs :
        SecondRunWritten(r) /\ SameReads => file.players = data[r].players

\* A player without its stat series.
Identity(p) ==
    [id |-> p.id, name |-> p.name, team |-> p.team, sport |-> p.sport,
     position |-> p.position]

Identities(players) == [k \in 1..Len(players) |-> Identity(players[k])]

\* The dates of a series, in its order.
Dates(series) == [j \in 1..Len(series) |-> series[j].date]

\* The number of points of a series with date d.
DateCount(series, d) == Cardinality({j \in 1..Len(series) : series[j].date = d})

\* C5, amended: after the second run the store holds the same players in
\* the same order as after the first, the NBA players once each and the
\* players of other sports as they were.  No series has gained a point:
\* every series is as long as after the first run, an NBA player's series
\* is the one the second run generated, and a date is in it as often as in
\* that.  The dates of every series are those after the first run when the
\* second run read from the clock what the first read.  The values of the
\* NBA players' points are drawn afresh and may differ.
ScrapeRepeatable ==
    \A r \in Reqs :
        SecondRunWritten(r)
           => /\ Identities(file.players) = Identities(data[r].players)
              /\ Len(NbaPlayers(file.players)) = Len(dummy[r])
              /\ OtherSports(file.players) = OtherSports(data[r].players)
              /\ \A k \in 1..Len(file.players) : \A m \in Metrics :
                    LET after == file.players[k].stats[m]
                        before == data[r].players[k].stats[m]
                    IN  /\ Len(after) = Len(before)
                        /\ k <= Len(dummy[r])
                              => /\ after = dummy[r][k].stats[m]
                                 /\ \A j \in 1..Len(after) :
                                       DateCount(after, after[j].date)
                                          = DateCount(dummy[r][k].stats[m],
                                                      after[j].date)
                        /\ SameReads => Dates(after) = Dates(before)

\* A second run that read from the clock what the first read has written a
\* store that differs from the first run's.
ScrapeRepeatableWitness ==
    \E r \in Reqs :
        SecondRunWritten(r) /\ SameReads /\ file.players # data[r].players

\* C6: a run that wrote left the players of other sports as they were, in
\* their order, and every NBA player of the store is one of its records; a
\* run that threw after it had read the store left the store as it was.
\* (The store is the run's until the next run ends.)
ScrapeFrame ==
    \A r \in Reqs :
        kind[r] = "scrape" /\ LastEnded(r)
           => /\ pc[r] = "written"
                 => /\ OtherSports(file.players) = OtherSports(data[r].players)
                    /\ NbaPlayers(file.players) = dummy[r]
                    /\ Len(file.players)
                          = Len(dummy[r]) + Len(OtherSports(data[r].players))
              /\ pc[r] = "threw" /\ data[r].ok => LoadData(file) = data[r]

\* A run has written over a store that held NBA players among others.
ScrapeFrameWitness ==
    \E r \in Reqs :
        /\ kind[r] = "scrape" /\ pc[r] = "written" /\ LastEnded(r)
        /\ data[r].players = <<Durant, Crosby, StaleLeBron, Messi>>

\* Exactly one record of the store the run read makes the run's handling
\* of it fail.
OneRecordFails(r) ==
    /\ data[r].ok /\ data[r].hasPlayers
    /\ Cardinality({k \in 1..Len(data[r].players) : IsNull(data[r].players[k])}) = 1

\* C7, as claimed: a run in which exactly one player's record fails does
\* not fail; it writes the other players' data.
PartialFailureContained ==
    \A r \in Reqs :
        kind[r] = "scrape" /\ OneRecordFails(r) => pc[r] # "threw"

\* The records of a run are complete: both players, each series with all
\* its points.
RecordsComplete(records) ==
    /\ Len(records) = 2
    /\ \A k \in 1..Len(records) : \A m \in Metrics :
          Len(records[k].stats[m]) = SeriesLen

\* C12: a run writes the store once, when all its records are built: until
\* then the store is as the run read it, and what it writes is its complete
\* records followed by the players it retained.  A run that threw (store
\* unreadable, unparsable, without a players list) has written nothing, has
\* left the store as it was, and its trigger is answered with an error.
\* (What a run left is in the store until the next run ends.)
CommitAfterBuild ==
    \A r \in Reqs :
        kind[r] = "scrape"
           => /\ pc[r] \in {"queued", "loaded", "built", "threw"} => ~wrote[r]
              /\ pc[r] \in {"loaded", "built"} => file = searched[r]
              /\ pc[r] = "written"
                    => /\ wrote[r]
                       /\ RecordsComplete(dummy[r])
                       /\ LastEnded(r)
                             => file = WrittenFile(dummy[r] \o OtherSports(data[r].players))
              /\ pc[r] = "threw" /\ LastEnded(r) => file = searched[r]
              /\ Answered(r) /\ ~wrote[r]
                    => /\ resp[r].code = 500
                       /\ resp[r].message = "Error running scraper"
              /\ Answered(r) /\ wrote[r] => resp[r].code = 200

\* A run that had built its records threw on a store with a null element
\* and left the store as it was.
CommitAfterBuildWitness ==
    \E r \in Reqs :
        /\ kind[r] = "scrape" /\ pc[r] = "threw" /\ LastEnded(r)
        /\ RecordsComplete(dummy[r])
        /\ searched[r] = JsonFile(<<Crosby, JsonNull>>)
        /\ file = searched[r]

\* C10: a player list answered after a trigger was answered with success
\* is the records of the run that wrote last, followed by the players that
\* run retained.
ReadAfterWrite ==
    \A r \in Reqs :
        /\ kind[r] = "players" /\ Answered(r)
        /\ seen[r].acked /\ seen[r].good = lastGood.count
        => /\ resp[r].code = 200
           /\ resp[r].players = lastGood.records \o lastGood.retained

\* A list was answered after a run that retained players of other sports.
ReadAfterWriteWitness ==
    \E r \in Reqs :
        /\ kind[r] = "players" /\ Answered(r)
        /\ seen[r].acked /\ seen[r].good = lastGood.count
        /\ Len(lastGood.retained) = 2
        /\ Len(resp[r].players) = 4

\* The stored players of a file: the elements of its players list that are
\* players.
StoredPlayers(f) ==
    IF f.kind = "json" /\ f.hasPlayers
    THEN SelectSeq(f.players, LAMBDA p : ~IsNull(p))
    ELSE <<>>

HasId(players, want) == \E k \in 1..Len(players) : <<players[k].id>> = want

\* The first player of a list with the id.
FirstWithId(players, want) ==
    players[CHOOSE k \in 1..Len(players) :
               /\ <<players[k].id>> = want
               /\ \A j \in 1..(k - 1) : <<players[j].id>> # want]

Lookups == {r \in Reqs : kind[r] = "player" /\ Answered(r)}

\* The file cannot be read or parsed.
Unreadable(f) == f.kind # "json"

\* A null element comes before every player with the id.
NullBeforeMatch(players, want) ==
    \E k \in 1..Len(players) :
        /\ IsNull(players[k])
        /\ \A j \in 1..(k - 1) : IsNull(players[j]) \/ <<players[j].id>> # want

\* C11, as claimed: a lookup by id is answered 500 when the store cannot
\* be read or parsed, else with the stored player of that id when there is
\* one, else with 404 "Player not found".
LookupByIdAsClaimed ==
    \A r \in Lookups :
        LET f == searched[r]
            want == ParseInt(param[r])
        IN  IF Unreadable(f) THEN resp[r].code = 500
            ELSE IF HasId(StoredPlayers(f), want)
            THEN /\ resp[r].code = 200
                 /\ found[r] = <<FirstWithId(StoredPlayers(f), want)>>
            ELSE /\ resp[r].code = 404
                 /\ resp[r].message = "Player not found"

\* C11, amended: a lookup by id is answered 500 when the store cannot be
\* read or parsed, has no players list, or holds a null element before any
\* player of that id; else 200 with the first stored player whose id is
\* the integer the path segment starts with; else 404 "Player not found".
\* A player that is sent has that id.
LookupById ==
    \A r \in Lookups :
        LET f == searched[r]
            want == ParseInt(param[r])
        IN  /\ IF Unreadable(f) \/ ~f.hasPlayers \/ NullBeforeMatch(f.players, want)
               THEN /\ resp[r].code = 500
                    /\ resp[r].message = "Error reading player data"
                    /\ found[r] = <<>>
               ELSE IF HasId(StoredPlayers(f), want)
               THEN /\ resp[r].code = 200
                    /\ found[r] = <<FirstWithId(StoredPlayers(f), want)>>
               ELSE /\ resp[r].code = 404
                    /\ resp[r].message = "Player not found"
                    /\ found[r] = <<>>
            /\ \A k \in 1..Len(found[r]) : <<found[r][k].id>> = want

\* A lookup after a run found a player of another sport behind the run's
\* records, by the digits its path segment starts with.
LookupByIdWitness ==
    \E r \in Lookups :
        /\ param[r] = <<"7", "a">>
        /\ resp[r].code = 200
        /\ found[r] = <<Crosby>>
        /\ Len(searched[r].players) > 2
        /\ searched[r].players[1].id = 1
        /\ Len(searched[r].players[1].stats.points) = SeriesLen

\* No two players of a list have the same id.
UniqueIds(players) ==
    \A j, k \in 1..Len(players) : players[j].id = players[k].id => j = k

\* C14, as claimed: when no two players of the store a run read share an
\* id, no two players of the store it wrote do.
IdsStayUnique ==
    \A r \in Reqs :
        /\ kind[r] = "scrape" /\ pc[r] = "written" /\ LastEnded(r)
        /\ UniqueIds(data[r].players)
        => UniqueIds(file.players)

\* The players route module has run its body.
PlayersModuleLoaded == boot \in {"players", "scrapers", "routes", "listening"}

\* C13, as claimed: the process does not end before it listens, and once
\* the players route module has run its body the data directory exists and
\* data/players.json is in it.
StartupOrdering ==
    /\ boot # "crashed"
    /\ PlayersModuleLoaded => dataDir /\ file.kind # "missing"

(***************************************************************************)
(* Properties of the client.                                               *)
(***************************************************************************)
\* C15, as claimed: when no request is outstanding and the page shows a
\* player, it is the player of the route's current id.
ShowsCurrentPlayer ==
    requests = {} /\ Shown = "player"
       => <<details.player[1].id>> = ParseInt(details.id)

\* C16: the loading flag never stays set: whenever loading is true it is
\* false later, whether the requests succeed or fail; and a step that sets
\* the error clears loading and leaves the player list as it was.
LoadingSettles ==
    /\ dashboard.loading ~> ~dashboard.loading
    /\ [][dashboard'.error # dashboard.error
             => /\ dashboard'.error # <<>>
                /\ ~dashboard'.loading
                /\ dashboard'.players = dashboard.players]_vars

\* A scrape trigger failed after the page had listed players and the run
\* had rewritten the store: the error is set, loading is false and the list
\* is the one from before the run.
LoadingSettlesWitness ==
    /\ clicks > 0
    /\ dashboard.mounted
    /\ call = "none"
    /\ dashboard.error = <<"Network Error">>
    /\ ~dashboard.loading
    /\ dashboard.players = <<Crosby>>
    /\ Len(file.players) = 3

(***************************************************************************)
(* Properties of the crawl pipeline.                                       *)
(***************************************************************************)
\* C8: two requests the rate limiter releases to one origin are never
\* closer together than the delay in effect at the later one: the larger of
\* the robots.txt crawl-delay and the global floor, times the backoff factor.
RateLimitRespected ==
    \A o \in Origins :
        last[o].ever /\ last[o].again
           => last[o].at - last[o].before
                 >= Max(policy[o].delay, GlobalFloor) * last[o].factor

\* A second request was released to an origin while another caller waits.
RateLimitRespectedWitness ==
    \E o \in Origins : last[o].again /\ waitq[o] # <<>>

\* The rule set an origin's robots.txt amounts to.
SiteRules(o) == ParsedPolicy(SiteRobots(o)).rules

\* C9: no request is issued for a path the origin's robots policy
\* disallows, none before the policy is known; a denied task has made no
\* attempt, waits in no queue and is not in flight.
PolicyFailsClosed ==
    /\ \A req \in net :
          req[2] # RobotsPath
             => policy[req[1]].known /\ isAllowed(SiteRules(req[1]), req[2])
    /\ \A t \in Tasks :
          task[t].pc \in {"waiting", "inflight", "done", "failed", "denied"}
             => policy[task[t].origin].known
    /\ \A t \in Tasks :
          task[t].pc = "denied"
             => /\ ~isAllowed(SiteRules(task[t].origin), task[t].path)
                /\ task[t].attempts = 0
                /\ <<task[t].origin, task[t].path>> \notin net
                /\ \A k \in 1..Len(waitq[task[t].origin]) :
                      waitq[task[t].origin][k] # t

\* A task was denied while requests for allowed paths went to its origin.
PolicyFailsClosedWitness ==
    \E t \in Tasks :
        /\ task[t].pc = "denied"
        /\ <<task[t].origin, <<"private", "open", "y">>>> \in net

=============================================================================
